---- MODULE Spec2Model ----
(***************************************************************************)
(* Model of the conversational session engine of the Mock Valuation Engine *)
(* (src/mock_conversation_api.py): the in-memory session store, the        *)
(* start_conversation and conversation_step handlers and the mock          *)
(* valuation computed when a conversation completes.                       *)
(*                                                                         *)
(* Each handler is an "async def" without any await, so on the event loop  *)
(* one request is handled from its first line to its response without      *)
(* interleaving: one action per handled request.  The last section models  *)
(* the handler line by line as a task of the event loop (tasks) to check   *)
(* that.                                                                   *)
(***************************************************************************)
EXTENDS Integers, Sequences, FiniteSets, TLC

VARIABLES sessions, request, response, now, tasks

vars == <<sessions, request, response, now, tasks>>

(***************************************************************************)
(* Bounds of the model.                                                    *)
(***************************************************************************)
\* Requests handled in one behaviour (each request takes one clock tick).
MaxRequests == 3

\* Identifiers uuid.uuid4() can return in one behaviour.
SessionIds == {"s1", "s2"}

\* A session identifier no Start ever returns.
UnknownId == "does-not-exist"

\* Subject references callers start a conversation for.
CompanyIds == {"co-1", "co-2"}

\* Subject references Step requests carry: the handler never reads it, so
\* one suffices, sent to sessions started for it and for another.
StepCompanyIds == {"co-1"}

\* Step ordinals callers declare: the first two and the last of the flow,
\* one past the end, and negative ones on both sides of the range Python's
\* negative indexing accepts for a list of six.
DeclaredSteps == {-8, -2, 0, 1, 5, 6}

\* A field name that is none of the flow's.
BogusField == "bogus"

(***************************************************************************)
(* JSON values, of a request body's "value" and of a result's fields: a    *)
(* number, a string s, true, false or null.  A number is a Python float:   *)
(* the finite n / d in lowest terms (d > 0), with the float's rounding     *)
(* error left out, or, d being 0, one of the three that are not finite.    *)
(* A string is the sequence of its Unicode code points, as a Python str.   *)
(***************************************************************************)
\* The ASCII characters a string literal can hold, in the order of their
\* code points: those from 32 to 95, and those from 97 to 126.
AsciiUpTo95 ==
  " !\"#$%&'()*+,-./0123456789:;<=>?@ABCDEFGHIJKLMNOPQRSTUVWXYZ[\\]^_"

AsciiFrom97 == "abcdefghijklmnopqrstuvwxyz{|}~"

\* The position of the character c in the string s.
IndexIn(s, c) == CHOOSE i \in 1..Len(s) : SubSeq(s, i, i) = c

\* ord(c) of a character written in a string literal: one of the above,
\* tab, line feed, vertical tab, form feed or carriage return.
CodePointOf ==
  [c \in {SubSeq(AsciiUpTo95, i, i) : i \in 1..Len(AsciiUpTo95)}
           \cup {SubSeq(AsciiFrom97, i, i) : i \in 1..Len(AsciiFrom97)}
           \cup {"\t", "\n", "", "\f", "\r"} |->
     CASE c = "\t" -> 9 [] c = "\n" -> 10 [] c = "" -> 11
       [] c = "\f" -> 12 [] c = "\r" -> 13
       [] c \in {SubSeq(AsciiFrom97, i, i) : i \in 1..Len(AsciiFrom97)} ->
            96 + IndexIn(AsciiFrom97, c)
       [] OTHER -> 31 + IndexIn(AsciiUpTo95, c)]

Ord(c) == CodePointOf[c]

\* [ord(c) for c in s]
RECURSIVE CodePoints(_)
CodePoints(s) ==
  IF Len(s) = 0 THEN <<>>
  ELSE <<Ord(SubSeq(s, 1, 1))>> \o CodePoints(SubSeq(s, 2, Len(s)))

RECURSIVE GCD(_, _)
GCD(a, b) == IF b = 0 THEN a ELSE GCD(b, a % b)

Number(n) == [json |-> "number", n |-> n, d |-> 1, s |-> <<>>]

\* The string of the given code points.
TextOf(codePoints) == [json |-> "string", n |-> 0, d |-> 1, s |-> codePoints]

\* The string written as a literal.
Text(s) == TextOf(CodePoints(s))

\* true and false.
Boolean(b) == [json |-> "boolean", n |-> IF b THEN 1 ELSE 0, d |-> 1, s |-> <<>>]

Null == [json |-> "null", n |-> 0, d |-> 1, s |-> <<>>]

\* The number n / d (d > 0).
Ratio(n, d) ==
  LET g == GCD(IF n >= 0 THEN n ELSE -n, d)
  IN [json |-> "number", n |-> n \div g, d |-> d \div g, s |-> <<>>]

\* float("inf"), float("-inf") and float("nan").
Infinity == [json |-> "number", n |-> 1, d |-> 0, s |-> <<>>]

NegInfinity == [json |-> "number", n |-> -1, d |-> 0, s |-> <<>>]

NaN == [json |-> "number", n |-> 0, d |-> 0, s |-> <<>>]

\* math.isfinite(x)
IsFinite(x) == x.d # 0

\* Values callers send: a number below revenue's minimum, a string that
\* spells a number within revenue's range, and a text answer.
Values == {Number(500), Text("2000000"), Text("Belgium")}

\* The answers of a caller that follows the flow, per step ordinal.  For a
\* text step: a text that spells no number, and the values the request
\* model lets through, a number and texts that spell one, one of them 7
\* between an ogham space mark (U+1680) and a space; for the first text
\* step also a text that cannot be encoded, 7 and a surrogate without its
\* pair (U+DFFF).  The revenues are
\* within [10000, 1000000000], even and odd, one of them spelled in a
\* string, and small enough for 6 * 2.5 * revenue to stay within the model
\* checker's 32-bit integers.
FlowAnswers ==
  << {Number(10000), Number(10003), Text("2000000"), Number(100000001)},
     {Number(400000)},
     {Number(25)},
     {Text("Technology"), TextOf(<<5760, 55, 32>>), TextOf(<<55, 57343>>)},
     {Number(15)},
     {Text("Belgium"), Number(32), Text("1e3")} >>

\* The values callers send in any of the specifications.
SentValues == Values \cup UNION {FlowAnswers[i] : i \in DOMAIN FlowAnswers}

(***************************************************************************)
(* CONVERSATION_FLOW, lines 29-78.                                         *)
(***************************************************************************)
CONVERSATION_FLOW ==
  << [step |-> 0, field |-> "revenue", input_type |-> "number",
      help_text |-> "Enter your annual revenue in euros",
      validation |-> [min |-> 10000, max |-> 1000000000],
      ai_message_template |-> "Hi! I'll help you get a quick business valuation. Let's start with your annual revenue - what was your total revenue last year?"],
     [step |-> 1, field |-> "ebitda", input_type |-> "number",
      help_text |-> "Enter your EBITDA (earnings before interest, taxes, depreciation, and amortization)",
      validation |-> [min |-> 0, max |-> 500000000],
      ai_message_template |-> "Great! Now, what was your EBITDA (earnings before interest, taxes, depreciation, and amortization) last year?"],
     [step |-> 2, field |-> "employees", input_type |-> "number",
      help_text |-> "How many employees does your company have?",
      validation |-> [min |-> 1, max |-> 10000],
      ai_message_template |-> "Thanks! How many employees does your company have?"],
     [step |-> 3, field |-> "industry", input_type |-> "text",
      help_text |-> "What industry is your company in?",
      validation |-> [min |-> 2, max |-> 100],
      ai_message_template |-> "What industry is your company in? (e.g., Technology, Manufacturing, Services)"],
     [step |-> 4, field |-> "growth_rate", input_type |-> "number",
      help_text |-> "What's your expected annual growth rate?",
      validation |-> [min |-> -50, max |-> 200],
      ai_message_template |-> "What's your expected annual growth rate for the next few years? (as a percentage, e.g., 15 for 15%)"],
     [step |-> 5, field |-> "country", input_type |-> "text",
      help_text |-> "What country is your company based in?",
      validation |-> [min |-> 2, max |-> 50],
      ai_message_template |-> "Finally, what country is your company based in?"] >>

\* len(CONVERSATION_FLOW)
stepCount == Len(CONVERSATION_FLOW)

FlowFields == {CONVERSATION_FLOW[i].field : i \in 1..stepCount}

\* Field names callers declare: the fields of steps 0, 1 and 5, and one
\* that is none of the flow's.
Fields == {"revenue", "ebitda", "country", BogusField}

(***************************************************************************)
(* Python list indexing, list[i]: a negative i counts from the end, and an *)
(* i outside -len .. len-1 raises IndexError.                              *)
(***************************************************************************)
IndexInRange(list, i) == -Len(list) <= i /\ i < Len(list)

PyIndex(list, i) == IF i >= 0 THEN list[i + 1] ELSE list[Len(list) + i + 1]

(***************************************************************************)
(* Python dict operations on a mapping modelled as a function.             *)
(***************************************************************************)
\* d[k] = v
DictSet(d, k, v) == [x \in DOMAIN d \cup {k} |-> IF x = k THEN v ELSE d[x]]

\* d.get(k, default)
DictGet(d, k, default) == IF k \in DOMAIN d THEN d[k] ELSE default

EmptyDict == [x \in {} |-> 0]

\* Mutant of IntTrunc: rounding to the nearest integer, halves up.
IntTrunc_round(p, q) ==
  IF p >= 0 THEN (2 * p + q) \div (2 * q) ELSE -((2 * (-p) + q) \div (2 * q))

(***************************************************************************)
(* int(x) of the float p / q (q > 0): truncation toward zero.              *)
(***************************************************************************)
IntTrunc(p, q) == IF p >= 0 THEN p \div q ELSE -((-p) \div q)

(***************************************************************************)
(* The conversion of a string to a float by the validation of a field      *)
(* declared float.  The string is converted with the white space around it *)
(* left out: a sign, then inf, infinity or nan in any case, or decimal     *)
(* digits with an optional point and an optional exponent.  A string that  *)
(* does not convert so is converted once more, as it is and without its    *)
(* underscores, when it has underscores, none of them first, last or next  *)
(* to another.  Spellings whose mantissa or value does not fit the model   *)
(* checker's 32-bit integers are outside the model.                        *)
(***************************************************************************)
\* s[i], for i in 1 .. Len(s).
Ch(s, i) == s[i]

\* The code points with the Unicode property White_Space, which the
\* conversion leaves out around the string: U+0009 to U+000D, U+0020,
\* U+0085, U+00A0, U+1680, U+2000 to U+200A, U+2028, U+2029, U+202F, U+205F
\* and U+3000.
Whitespace ==
  (9..13) \cup {32, 133, 160, 5760} \cup (8192..8202)
    \cup {8232, 8233, 8239, 8287, 12288}

\* c is one of the decimal digits 0 to 9.
IsDigit(c) == c \in Ord("0")..Ord("9")

\* int(c) of a decimal digit c.
DigitOf(c) == c - Ord("0")

RECURSIVE Pow10(_)
Pow10(k) == IF k = 0 THEN 1 ELSE 10 * Pow10(k - 1)

\* s without the white space at its start, and at its end.
RECURSIVE LStrip(_)
LStrip(s) ==
  IF Len(s) > 0 /\ Ch(s, 1) \in Whitespace THEN LStrip(SubSeq(s, 2, Len(s))) ELSE s

RECURSIVE RStrip(_)
RStrip(s) ==
  IF Len(s) > 0 /\ Ch(s, Len(s)) \in Whitespace
  THEN RStrip(SubSeq(s, 1, Len(s) - 1)) ELSE s

\* The upper-case letter of a lower-case ASCII letter.
UpperCase(c) == c - 32

\* s.lower() == word, for a word of lower-case letters.
SpellsWord(s, word) ==
  LET w == CodePoints(word)
  IN /\ Len(s) = Len(w)
     /\ \A i \in 1..Len(w) : Ch(s, i) \in {w[i], UpperCase(w[i])}

\* The digits of s from position i on: the number they spell after the
\* digits of value, how many they are, and the position of the first
\* character that is none of them.
RECURSIVE ScanDigits(_, _, _, _)
ScanDigits(s, i, value, count) ==
  IF i <= Len(s) /\ IsDigit(Ch(s, i))
  THEN ScanDigits(s, i + 1, 10 * value + DigitOf(Ch(s, i)), count + 1)
  ELSE [value |-> value, count |-> count, next |-> i]

\* The result of a conversion that raises ValueError.
NotAFloat == [json |-> "invalid", n |-> 0, d |-> 0, s |-> <<>>]

\* The float of a decimal spelling: its mantissa's digits, how many of
\* them follow the point, and its exponent.
DecimalValue(s, mantissa, decimals, exponent, negative, power) ==
  LET scale == (IF negative THEN -power.value ELSE power.value) - decimals
  IN IF \/ mantissa.count = 0
        \/ exponent /\ power.count = 0
        \/ power.next # Len(s) + 1
     THEN NotAFloat
     ELSE IF scale >= 0 THEN Number(mantissa.value * Pow10(scale))
          ELSE Ratio(mantissa.value, Pow10(-scale))

\* The exponent after the mantissa, of which wholeCount digits precede the
\* point: [(e | E) [sign] digits].
ParseExponent(s, mantissa, wholeCount) ==
  LET e == mantissa.next
      exponent == e <= Len(s) /\ Ch(s, e) \in {Ord("e"), Ord("E")}
      signed == exponent /\ e + 1 <= Len(s) /\ Ch(s, e + 1) \in {Ord("+"), Ord("-")}
  IN DecimalValue(s, mantissa, mantissa.count - wholeCount, exponent,
                  signed /\ Ch(s, e + 1) = Ord("-"),
                  IF exponent
                  THEN ScanDigits(s, IF signed THEN e + 2 ELSE e + 1, 0, 0)
                  ELSE [value |-> 0, count |-> 0, next |-> e])

\* The fraction after the whole digits: [. digits].
ParseFraction(s, whole) ==
  IF whole.next <= Len(s) /\ Ch(s, whole.next) = Ord(".")
  THEN ParseExponent(s, ScanDigits(s, whole.next + 1, whole.value, whole.count), whole.count)
  ELSE ParseExponent(s, whole, whole.count)

\* The float of an s without sign:
\* digits [. digits] [(e | E) [sign] digits], with a digit in the mantissa.
ParseDecimal(s) == ParseFraction(s, ScanDigits(s, 1, 0, 0))

\* -x
Negated(x) == IF x = NotAFloat THEN x ELSE [x EXCEPT !.n = -@]

\* The float s spells, s taken as it is: [sign] (inf | infinity | nan |
\* decimal).
ParseNumber(s) ==
  LET signed == Len(s) > 0 /\ Ch(s, 1) \in {Ord("+"), Ord("-")}
      negative == signed /\ Ch(s, 1) = Ord("-")
      body == IF signed THEN SubSeq(s, 2, Len(s)) ELSE s
      magnitude == IF SpellsWord(body, "inf") \/ SpellsWord(body, "infinity")
                   THEN Infinity
                   ELSE IF SpellsWord(body, "nan") THEN NaN
                   ELSE ParseDecimal(body)
  IN IF negative THEN Negated(magnitude) ELSE magnitude

\* s has underscores to leave out: none first, none last, no two in a row.
HasInnerUnderscores(s) ==
  /\ \E i \in 1..Len(s) : Ch(s, i) = Ord("_")
  /\ Ch(s, 1) # Ord("_")
  /\ Ch(s, Len(s)) # Ord("_")
  /\ \A i \in 1..(Len(s) - 1) : ~(Ch(s, i) = Ord("_") /\ Ch(s, i + 1) = Ord("_"))

\* s.replace("_", "")
RECURSIVE WithoutUnderscores(_)
WithoutUnderscores(s) ==
  IF Len(s) = 0 THEN s
  ELSE (IF Ch(s, 1) = Ord("_") THEN <<>> ELSE <<Ch(s, 1)>>)
         \o WithoutUnderscores(SubSeq(s, 2, Len(s)))

\* The float the validation converts the string s to.
ParseFloat(s) ==
  LET trimmed == ParseNumber(RStrip(LStrip(s)))
  IN IF trimmed # NotAFloat THEN trimmed
     ELSE IF HasInnerUnderscores(s) THEN ParseNumber(WithoutUnderscores(s))
     ELSE NotAFloat

(***************************************************************************)
(* Request bodies.  ConversationStepRequest declares value: float: the     *)
(* framework validates the body before the handler runs, hands the handler *)
(* the float a JSON number, a string that spells a number, true or false   *)
(* converts to, and answers a body whose value converts to none with a     *)
(* validation error that echoes the value: 422, or 500 when the echo        *)
(* cannot be encoded.                                                      *)
(***************************************************************************)
StartConversationRequest(company_id) ==
  [endpoint |-> "start", company_id |-> company_id]

ConversationStepRequest(company_id, session_id, step, field, value) ==
  [endpoint |-> "step", company_id |-> company_id, session_id |-> session_id,
   step |-> step, field |-> field, value |-> value]

\* The float the field value: float holds for a JSON value.
FloatOf(value) ==
  IF value.json = "number" THEN value
  ELSE IF value.json = "string" THEN ParseFloat(value.s)
  ELSE IF value.json = "boolean" THEN Number(value.n)
  ELSE NotAFloat

\* FloatOf, converted once for the values callers send.
FloatOfSent == [value \in SentValues |-> FloatOf(value)]

AsFloat(value) ==
  IF value \in SentValues THEN FloatOfSent[value] ELSE FloatOf(value)

IsFloat(value) == AsFloat(value) # NotAFloat

\* The code points of the surrogates.  A pair of them in a JSON string is
\* read as the one code point above U+FFFF it stands for, so that a
\* surrogate in a str is one without its pair.
Surrogates == 55296..57343

\* s.encode("utf-8") raises no UnicodeEncodeError.
Encodable(s) == \A i \in 1..Len(s) : Ch(s, i) \notin Surrogates

\* The validation error of a value that converts to no float: it holds the
\* input, the string of a JSON string, which the response to it echoes.
RequestValidationError(value) ==
  [json |-> "invalid", n |-> 0, d |-> 0, s |-> value.s,
   encodable |-> Encodable(value.s)]

\* The value the request model holds for a JSON value: the float it
\* converts to or, when it converts to none, the validation error.
ModelValue(value) ==
  LET float == FloatOf(value)
  IN IF float # NotAFloat THEN float ELSE RequestValidationError(value)

\* ModelValue, computed once for the values callers send.
ModelValueOfSent == [value \in SentValues |-> ModelValue(value)]

\* The request model the handler receives for a body that validates; a
\* body that does not has the validation error for its value.
Validated(req) ==
  [req EXCEPT !.value = IF @ \in SentValues THEN ModelValueOfSent[@]
                        ELSE ModelValue(@)]

\* The body of req did not validate.
Refused(req) == req.value.json = "invalid"

StepRequests ==
  {ConversationStepRequest(c, sid, st, f, v) :
     c \in StepCompanyIds, sid \in SessionIds \cup {UnknownId},
     st \in DeclaredSteps, f \in Fields, v \in Values}

(***************************************************************************)
(* Responses.                                                              *)
(***************************************************************************)
StartConversationResponse(session_id) ==
  LET first_step == PyIndex(CONVERSATION_FLOW, 0) IN
  [status |-> 200, kind |-> "start", session_id |-> session_id,
   ai_message |-> first_step.ai_message_template, step |-> 0,
   next_field |-> first_step.field, input_type |-> first_step.input_type,
   help_text |-> first_step.help_text, validation |-> first_step.validation]

\* raise HTTPException(status_code=400, detail="Invalid session_id")
InvalidSession == [status |-> 400, kind |-> "error", detail |-> "Invalid session_id"]

\* The framework's answer to a body that does not parse as the request
\* model, when it can be encoded.
Unprocessable == [status |-> 422, kind |-> "error", detail |-> "value is not a valid float"]

\* An exception nothing catches: of the handler (IndexError, OverflowError,
\* ValueError), or of the encoding of a response (UnicodeEncodeError).
InternalError == [status |-> 500, kind |-> "error", detail |-> "Internal Server Error"]

\* The framework's answer to the body of req, which did not validate: the
\* validation error with the value it refused, encoded as UTF-8.
ValidationReply(req) ==
  IF req.value.encodable THEN Unprocessable ELSE InternalError

\* Lines 174, 175 and 190: the defaults of industry and country, and 0.85.
DefaultIndustry == Text("Technology")

DefaultCountry == Text("Belgium")

ConfidenceScore == Ratio(85, 100)

\* Lines 171-199: the mock valuation from the session's data, for a
\* revenue int() converts.  The stored answers are floats; the defaults of
\* revenue, employees and growth_rate are integers, those of industry and
\* country texts.
ValuationResult(data, time) ==
  LET revenue == DictGet(data, "revenue", Number(1000000))
      ebitda == DictGet(data, "ebitda", Ratio(revenue.n, 5 * revenue.d))
      employees == DictGet(data, "employees", Number(10))
      industry == DictGet(data, "industry", DefaultIndustry)
      country == DictGet(data, "country", DefaultCountry)
      growth_rate == DictGet(data, "growth_rate", Number(15))
      valuation == IntTrunc(revenue.n * 5, revenue.d * 2)
      min_valuation == IntTrunc(valuation * 4, 5)
      max_valuation == IntTrunc(valuation * 6, 5)
  IN [valuation_id |-> <<"val_", time>>,
      equity_value |-> valuation,
      valuation_range |-> [min |-> min_valuation, max |-> max_valuation],
      confidence_score |-> ConfidenceScore,
      methodology |-> "DCF + Market Multiples",
      company_name |-> "Demo Company",
      revenue |-> revenue,
      ebitda |-> ebitda,
      employees |-> employees,
      industry |-> industry,
      country |-> country,
      growth_rate |-> growth_rate]

\* The JSON the response model's serialisation writes for a value of the
\* result: null for a float that is not finite.
JsonOf(x) == IF x.json = "number" /\ ~IsFinite(x) THEN Null ELSE x

\* Lines 201-205 and the serialisation of the response model (line 156):
\* the response on the wire.
CompleteResponse(data, time) ==
  [status |-> 200, kind |-> "step", complete |-> TRUE,
   ai_message |-> "Perfect! I have all the information I need. Your business valuation is complete.",
   valuation_result |->
     [ValuationResult(data, time) EXCEPT
        !.revenue = JsonOf(@), !.ebitda = JsonOf(@), !.employees = JsonOf(@),
        !.industry = JsonOf(@), !.country = JsonOf(@),
        !.growth_rate = JsonOf(@)]]

NextStepResponse(next_step) ==
  [status |-> 200, kind |-> "step", complete |-> FALSE,
   ai_message |-> next_step.ai_message_template, step |-> next_step.step,
   next_field |-> next_step.field, input_type |-> next_step.input_type,
   help_text |-> next_step.help_text, validation |-> next_step.validation]

(***************************************************************************)
(* The state after construction: an empty session store.                   *)
(***************************************************************************)
NoRequest == [endpoint |-> "none"]

NoResponse == [status |-> 0, kind |-> "none"]

Init ==
  /\ sessions = EmptyDict
  /\ request = NoRequest
  /\ response = NoResponse
  /\ now = 0
  /\ tasks = << >>

\* Mutant of uuid4: an identifier generator that can return an identifier
\* already in use.
uuid4_reuse(store) == SessionIds

(***************************************************************************)
(* uuid.uuid4(): an identifier that is in no one's hands yet (a collision  *)
(* of two 122-bit random identifiers is not modelled).                     *)
(***************************************************************************)
uuid4(store) == SessionIds \ DOMAIN store

\* Lines 130-135: the new session.
NewSession(company_id, time) ==
  [company_id |-> company_id, step |-> 0, data |-> EmptyDict, started_at |-> time]

\* Lines 125-153: the handler, for a request that arrives at time now.
StartHandler(company_id) ==
  /\ \E session_id \in uuid4(sessions) :
       /\ sessions' = DictSet(sessions, session_id, NewSession(company_id, now))
       /\ response' = StartConversationResponse(session_id)
  /\ request' = StartConversationRequest(company_id)
  /\ now' = now + 1
  /\ UNCHANGED tasks

\* Lines 125-153, for any caller.
start_conversation(company_id) ==
  /\ now < MaxRequests
  /\ StartHandler(company_id)

\* Mutant of RecordAnswer: one "data" dict shared by every session.
RecordAnswer_shared_data(store, req) ==
  [x \in DOMAIN store |->
     [store[x] EXCEPT !.data = DictSet(@, req.field, req.value),
                      !.step = IF x = req.session_id THEN req.step + 1 ELSE @]]

\* Lines 164-166: the handler's writes to the session.
RecordAnswer(store, req) ==
  [store EXCEPT ![req.session_id] =
     [@ EXCEPT !.data = DictSet(@, req.field, req.value),
               !.step = req.step + 1]]

\* Lines 168-218: the handler's response after its writes.  int() of a
\* float that is not finite raises OverflowError or ValueError.
StepResponse(store, req, time) ==
  IF req.step >= Len(CONVERSATION_FLOW) - 1
  THEN IF IsFinite(DictGet(store[req.session_id].data, "revenue", Number(1000000)))
       THEN CompleteResponse(store[req.session_id].data, time)
       ELSE InternalError
  ELSE IF IndexInRange(CONVERSATION_FLOW, req.step + 1)
       THEN NextStepResponse(PyIndex(CONVERSATION_FLOW, req.step + 1))
       ELSE InternalError

\* Lines 157-166 after the framework's validation of the body: the session
\* store the handler leaves, for the request model req.
SessionsAfterStep(store, req) ==
  IF Refused(req) THEN store
  ELSE IF req.session_id \notin DOMAIN store THEN store
  ELSE RecordAnswer(store, req)

\* Lines 157-218 after the framework's validation of the body: the response
\* the caller gets, for the request model req.
StepReply(store, req, time) ==
  IF Refused(req) THEN ValidationReply(req)
  ELSE IF req.session_id \notin DOMAIN store THEN InvalidSession
  ELSE StepResponse(RecordAnswer(store, req), req, time)

\* Lines 157-218: the framework's validation of the body req and the
\* handler, for a request that arrives at time now.
StepHandler(req) ==
  LET model == Validated(req)
  IN /\ request' = req
     /\ now' = now + 1
     /\ sessions' = SessionsAfterStep(sessions, model)
     /\ response' = StepReply(sessions, model, now)
     /\ UNCHANGED tasks

\* Lines 157-218, for any caller.
conversation_step(req) ==
  /\ now < MaxRequests
  /\ StepHandler(req)

Next ==
  \/ \E company_id \in CompanyIds : start_conversation(company_id)
  \/ \E req \in StepRequests : conversation_step(req)

Spec == Init /\ [][Next]_vars

(***************************************************************************)
(* The caller that follows the flow: it starts conversations and answers,  *)
(* for a session, the step the session is at, under that step's field.     *)
(***************************************************************************)
\* Requests such a caller sends in one behaviour: a Start and six Steps.
MaxFlowRequests == 7

FlowRequests(store) ==
  {ConversationStepRequest(store[sid].company_id, sid, store[sid].step,
                           CONVERSATION_FLOW[store[sid].step + 1].field, v) :
     sid \in {x \in DOMAIN store : store[x].step \in 0..(stepCount - 1)},
     v \in UNION {FlowAnswers[i] : i \in 1..stepCount}}

flow_start(company_id) ==
  /\ now < MaxFlowRequests
  /\ StartHandler(company_id)

flow_answer(req) ==
  /\ now < MaxFlowRequests
  /\ req.value \in FlowAnswers[req.step + 1]
  /\ StepHandler(req)

NextFlow ==
  \/ \E company_id \in CompanyIds : flow_start(company_id)
  \/ \E req \in FlowRequests(sessions) : flow_answer(req)

SpecFlow == Init /\ [][NextFlow]_vars

(***************************************************************************)
(* Step requests in flight together.  The server runs every request as a   *)
(* task of one event loop: a task that has the loop keeps it until it      *)
(* reaches an await expression or returns, and only then another task      *)
(* runs.  tasks holds the Step requests the server has accepted, each with *)
(* the line of conversation_step its task is at and the response it sent.  *)
(***************************************************************************)
\* Step requests in flight together.
MaxInFlight == 2

\* Conversations started before the Steps arrive.
MaxStarts == 2

\* The requests that arrive together: on either session, for the first or
\* the last step, two values for one field and one for another, and a value
\* the validation refuses and the response cannot echo.
ConcurrentRequests ==
  {ConversationStepRequest(c, sid, st, fv[1], fv[2]) :
     c \in StepCompanyIds, sid \in SessionIds, st \in {0, 5},
     fv \in {<<"revenue", Number(500)>>, <<"revenue", Text("2000000")>>,
             <<"ebitda", Number(500)>>, <<"revenue", TextOf(<<55, 57343>>)>>}}

\* Mutant of AwaitPoints: an await between the handler's two writes.
AwaitPoints_between_writes == {"line166"}

\* The lines of conversation_step at which it awaits: lines 157-218 hold no
\* await expression.
AwaitPoints == {}

\* The task does not have the event loop.
Suspended(task) == task.pc \in {"arrived", "done"} \cup AwaitPoints

\* Line 165.
Line165(store, req) ==
  [store EXCEPT ![req.session_id].data = DictSet(@, req.field, req.value)]

\* Line 166.
Line166(store, req) ==
  [store EXCEPT ![req.session_id].step = req.step + 1]

\* The server accepts a Step request: its task is created.
arrive(req) ==
  /\ Len(tasks) < MaxInFlight
  /\ tasks' = Append(tasks, [req |-> req, pc |-> "arrived", reply |-> NoResponse])
  /\ UNCHANGED <<sessions, request, response, now>>

\* The event loop runs task i up to its next line.
run(i) ==
  LET task == tasks[i]
      req == Validated(task.req)
      Goto(line) == tasks' = [tasks EXCEPT ![i].pc = line]
      Return(reply) == tasks' = [tasks EXCEPT ![i].pc = "done", ![i].reply = reply]
  IN /\ task.pc # "done"
     /\ \A j \in DOMAIN tasks \ {i} : Suspended(tasks[j])
     /\ UNCHANGED <<request, response, now>>
     /\ \/ /\ task.pc = "arrived"
           /\ IF Refused(req) THEN Return(ValidationReply(req))
              ELSE IF req.session_id \notin DOMAIN sessions
              THEN Return(InvalidSession)
              ELSE Goto("line165")
           /\ UNCHANGED sessions
        \/ /\ task.pc = "line165"
           /\ sessions' = Line165(sessions, req)
           /\ Goto("line166")
        \/ /\ task.pc = "line166"
           /\ sessions' = Line166(sessions, req)
           /\ Goto("line169")
        \/ /\ task.pc = "line169"
           /\ Return(StepResponse(sessions, req, now))
           /\ UNCHANGED sessions

\* Conversations are started before the Steps arrive.
concurrent_start(company_id) ==
  /\ tasks = << >>
  /\ now < MaxStarts
  /\ StartHandler(company_id)

NextConcurrent ==
  \/ \E company_id \in CompanyIds : concurrent_start(company_id)
  \/ \E req \in ConcurrentRequests : arrive(req)
  \/ \E i \in DOMAIN tasks : run(i)

SpecConcurrent == Init /\ [][NextConcurrent]_vars

(***************************************************************************)
(* Vocabulary of the properties.                                           *)
(***************************************************************************)
\* The transition handles a Step request (request' is the one handled).
StepHandled == now' = now + 1 /\ request'.endpoint = "step"

\* The transition handles a Start request.
StartHandled == now' = now + 1 /\ request'.endpoint = "start"

\* The FlowStep at a declared ordinal of the flow.
HasFlowStep(step) == step \in 0..(stepCount - 1)

FlowStepAt(step) == CONVERSATION_FLOW[step + 1]

FlowStepOf(field) ==
  CHOOSE fs \in {CONVERSATION_FLOW[i] : i \in 1..stepCount} : fs.field = field

\* The validation rule of a FlowStep: a number within [min, max] for a
\* numeric step (n / d >= min when its floor is, n / d <= max when its
\* ceiling is), a text whose length is within [min, max] for a text step.
SatisfiesRule(flow_step, value) ==
  IF flow_step.input_type = "number"
  THEN /\ value.json = "number"
       /\ IsFinite(value)
       /\ flow_step.validation.min <= value.n \div value.d
       /\ -((-value.n) \div value.d) <= flow_step.validation.max
  ELSE /\ value.json = "string"
       /\ flow_step.validation.min <= Len(value.s)
       /\ Len(value.s) <= flow_step.validation.max

ClientError(resp) == resp.kind = "error" /\ resp.status \in 400..499

Completed(resp) == resp.status = 200 /\ resp.kind = "step" /\ resp.complete

InProgress(resp) == resp.status = 200 /\ resp.kind = "step" /\ ~resp.complete

(***************************************************************************)
(* C1, monotonic advance: every Step answered with a normal response       *)
(* raises the session's stored step ordinal by exactly 1, and no Step      *)
(* lowers a session's stored step ordinal.                                 *)
(***************************************************************************)
C1_MonotonicAdvance ==
  [][StepHandled /\ request'.session_id \in DOMAIN sessions =>
       LET before == sessions[request'.session_id].step
           after == sessions'[request'.session_id].step
       IN /\ response'.status = 200 => after = before + 1
          /\ after >= before]_vars

(***************************************************************************)
(* C2, no mutation on rejection: a Step whose value violates the rule of   *)
(* the FlowStep at the declared ordinal leaves the session store as it     *)
(* was.                                                                    *)
(***************************************************************************)
C2_NoMutationOnRejection ==
  [][StepHandled /\ HasFlowStep(request'.step)
       /\ ~SatisfiesRule(FlowStepAt(request'.step), request'.value)
     => sessions' = sessions]_vars

(***************************************************************************)
(* C3, validation: every value stored in an answer mapping under a flow    *)
(* field satisfies that field's validation rule.                           *)
(***************************************************************************)
C3_StoredValuesValid ==
  \A sid \in DOMAIN sessions :
    \A f \in DOMAIN sessions[sid].data \cap FlowFields :
      SatisfiesRule(FlowStepOf(f), sessions[sid].data[f])

(***************************************************************************)
(* C4, completion exactness: a Step on an existing session is answered     *)
(* complete=true exactly when the declared ordinal is stepCount - 1.       *)
(***************************************************************************)
C4_CompletionExactness ==
  request.endpoint = "step" =>
    (Completed(response) <=> /\ request.step = stepCount - 1
                             /\ response.status \notin {400, 422})

(***************************************************************************)
(* C5, full coverage on completion: whenever a Step produces a valuation   *)
(* result, the session's answer mapping has a value for every flow field.  *)
(***************************************************************************)
C5_FullCoverageOnCompletion ==
  (request.endpoint = "step" /\ Completed(response)) =>
    FlowFields \subseteq DOMAIN sessions[request.session_id].data

(***************************************************************************)
(* C6, step-ordinal range: every session's stored step ordinal is within   *)
(* 0 .. stepCount, and a session at stepCount has every flow field         *)
(* answered.                                                               *)
(***************************************************************************)
C6_StepOrdinalRange ==
  \A sid \in DOMAIN sessions :
    /\ sessions[sid].step \in 0..stepCount
    /\ sessions[sid].step = stepCount =>
         FlowFields \subseteq DOMAIN sessions[sid].data

(***************************************************************************)
(* C7, unknown session: a Step whose session identifier is not in the      *)
(* store is answered with the error of an unknown session (400 "Invalid    *)
(* session_id") and leaves the store as it was: no session is created and  *)
(* none changes.                                                           *)
(***************************************************************************)
C7_UnknownSession ==
  [][StepHandled /\ request'.session_id \notin DOMAIN sessions =>
       /\ response' = InvalidSession
       /\ sessions' = sessions]_vars

(***************************************************************************)
(* C8, isolation: a Start or Step addressed to session A leaves every      *)
(* other session B as it was (step ordinal, answers, company_id,           *)
(* started_at), and the response to a Step on A is the one the handler     *)
(* gives when A is the only session of the store.                          *)
(***************************************************************************)
Addressed == IF request'.endpoint = "start" THEN response'.session_id
             ELSE request'.session_id

Only(store, sid) == [x \in DOMAIN store \cap {sid} |-> store[x]]

C8_Isolation ==
  [][StepHandled \/ StartHandled =>
       /\ \A b \in DOMAIN sessions \ {Addressed} :
            b \in DOMAIN sessions' /\ sessions'[b] = sessions[b]
       /\ StepHandled =>
            response' = StepReply(Only(sessions, request'.session_id),
                                  Validated(request'), now)]_vars

\* A Step was accepted on one of two sessions; the other is as Start left it.
C8_Witness ==
  /\ request.endpoint = "step"
  /\ response.status = 200
  /\ \E b \in DOMAIN sessions \ {request.session_id} :
       /\ sessions[b].step = 0
       /\ sessions[b].data = EmptyDict
       /\ sessions[b].company_id # sessions[request.session_id].company_id
       /\ sessions[b].started_at < sessions[request.session_id].started_at

(***************************************************************************)
(* C9, field mismatch: a Step whose field differs from the field of the    *)
(* FlowStep at the declared ordinal is answered with a client error and    *)
(* records nothing.                                                        *)
(***************************************************************************)
C9_FieldMismatch ==
  [][StepHandled /\ HasFlowStep(request'.step)
       /\ request'.field # FlowStepAt(request'.step).field
     => ClientError(response') /\ sessions' = sessions]_vars

(***************************************************************************)
(* C10, Start: every Start adds exactly one session, under an identifier   *)
(* that was not in the store, with step ordinal 0, no answers and the      *)
(* caller's company_id, leaves the existing sessions as they were, and     *)
(* returns step 0 with the first flow step (revenue, [10000, 1000000000]). *)
(***************************************************************************)
C10_Start ==
  [][StartHandled =>
       \E sid \in DOMAIN sessions' \ DOMAIN sessions :
         /\ DOMAIN sessions' = DOMAIN sessions \cup {sid}
         /\ sessions'[sid] = [company_id |-> request'.company_id, step |-> 0,
                              data |-> EmptyDict, started_at |-> now]
         /\ \A b \in DOMAIN sessions : sessions'[b] = sessions[b]
         /\ response'.status = 200
         /\ response'.session_id = sid
         /\ response'.step = 0
         /\ response'.next_field = "revenue"
         /\ response'.input_type = "number"
         /\ response'.validation = [min |-> 10000, max |-> 1000000000]]_vars

\* A second session was started while the first already held an answer.
C10_Witness ==
  /\ request.endpoint = "start"
  /\ response.session_id \in DOMAIN sessions
  /\ sessions[response.session_id].data = EmptyDict
  /\ \E b \in DOMAIN sessions \ {response.session_id} :
       sessions[b].data # EmptyDict /\ sessions[b].step # 0

(***************************************************************************)
(* C11, next-step response: every Step answered complete=false carries the *)
(* FlowStep at ordinal declaredStep + 1, and the step ordinal it returns   *)
(* is declaredStep + 1 and the session's stored step ordinal.              *)
(***************************************************************************)
C11_NextStepResponse ==
  (request.endpoint = "step" /\ InProgress(response)) =>
    /\ response.step = request.step + 1
    /\ response.step = sessions[request.session_id].step
    /\ HasFlowStep(request.step + 1)
    /\ LET next_step == FlowStepAt(request.step + 1)
       IN /\ response.next_field = next_step.field
          /\ response.input_type = next_step.input_type
          /\ response.help_text = next_step.help_text
          /\ response.validation = next_step.validation

(***************************************************************************)
(* C12, errors recovered at the request boundary: every Step ends in a     *)
(* normal response or in a client error, never in a server-internal        *)
(* failure, and a Step that ends in an error leaves the store as it was.   *)
(***************************************************************************)
C12_ErrorsAtRequestBoundary ==
  [][StepHandled =>
       /\ response'.status = 200 \/ ClientError(response')
       /\ response'.status # 200 => sessions' = sessions]_vars

(***************************************************************************)
(* C16, the step ordinal counts answers: every session's stored step       *)
(* ordinal is the number of fields in its answer mapping, and these are    *)
(* the fields of flow steps 0 .. ordinal - 1.                              *)
(***************************************************************************)
C16_StepOrdinalCountsAnswers ==
  \A sid \in DOMAIN sessions :
    /\ sessions[sid].step = Cardinality(DOMAIN sessions[sid].data)
    /\ sessions[sid].step \in 0..stepCount
    /\ DOMAIN sessions[sid].data =
         {CONVERSATION_FLOW[i].field : i \in 1..sessions[sid].step}

(***************************************************************************)
(* C17, the terminal state is absorbing: a Step on a session whose stored  *)
(* step ordinal is stepCount changes neither its step ordinal nor its      *)
(* answer mapping.                                                         *)
(***************************************************************************)
C17_TerminalAbsorbing ==
  [][(/\ StepHandled
      /\ request'.session_id \in DOMAIN sessions
      /\ sessions[request'.session_id].step = stepCount)
     => /\ sessions'[request'.session_id].step = stepCount
        /\ sessions'[request'.session_id].data = sessions[request'.session_id].data]_vars

(***************************************************************************)
(* C18, effect of a successful Step: answers[field] is the submitted       *)
(* value, the step ordinal is declaredStep + 1, every other entry of the   *)
(* answer mapping is as it was, and so are the session's company_id (the   *)
(* request's company_id is not written) and started_at.                    *)
(***************************************************************************)
C18_SuccessfulStepEffect ==
  [][(StepHandled /\ response'.status = 200) =>
       /\ request'.session_id \in DOMAIN sessions
       /\ LET before == sessions[request'.session_id]
              after == sessions'[request'.session_id]
          IN /\ DOMAIN after.data = DOMAIN before.data \cup {request'.field}
             /\ after.data[request'.field] = request'.value
             /\ \A f \in DOMAIN before.data \ {request'.field} :
                  after.data[f] = before.data[f]
             /\ after.step = request'.step + 1
             /\ after.company_id = before.company_id
             /\ after.started_at = before.started_at]_vars

(***************************************************************************)
(* C19, the range brackets the estimate: in every valuation result,        *)
(* valuation_range.min <= equity_value <= valuation_range.max, the         *)
(* equity_value derives from the revenue stored in the session, and the    *)
(* defaults of revenue and ebitda are not used: both are recorded.         *)
(***************************************************************************)
C19_RangeBracketsEstimate ==
  (request.endpoint = "step" /\ Completed(response)) =>
    LET result == response.valuation_result
        data == sessions[request.session_id].data
    IN /\ result.valuation_range.min <= result.equity_value
       /\ result.equity_value <= result.valuation_range.max
       /\ "revenue" \in DOMAIN data
       /\ "ebitda" \in DOMAIN data
       /\ result.revenue = data["revenue"]

(***************************************************************************)
(* Vocabulary of the derivation.                                           *)
(***************************************************************************)
\* round(p / q) for p >= 0, q > 0: the nearest integer, a half going to the
\* even neighbour.
Round(p, q) ==
  LET floor == p \div q
      twice == 2 * (p % q)
  IN IF twice < q THEN floor
     ELSE IF twice > q THEN floor + 1
     ELSE IF floor % 2 = 0 THEN floor ELSE floor + 1

\* n is the integer part of p / q (p >= 0, q > 0).
IntegerPartOf(n, p, q) == q * n <= p /\ p < q * (n + 1)

ValidRevenue(data) ==
  /\ "revenue" \in DOMAIN data
  /\ SatisfiesRule(FlowStepOf("revenue"), data["revenue"])
  /\ data["revenue"].d = 1

(***************************************************************************)
(* C13 as stated, derivation by rounding: in a completed session with a    *)
(* valid revenue, estimate = round(revenue * 2.5), low =                   *)
(* round(estimate * 0.8), high = round(estimate * 1.2), confidence 0.85.   *)
(***************************************************************************)
C13_DerivationRounds ==
  (/\ request.endpoint = "step"
   /\ Completed(response)
   /\ ValidRevenue(sessions[request.session_id].data)) =>
    LET revenue == sessions[request.session_id].data["revenue"].n
        result == response.valuation_result
    IN /\ result.equity_value = Round(revenue * 5, 2)
       /\ result.valuation_range.min = Round(result.equity_value * 4, 5)
       /\ result.valuation_range.max = Round(result.equity_value * 6, 5)
       /\ result.confidence_score = Ratio(85, 100)

(***************************************************************************)
(* C13 as amended, derivation by truncation: in a completed session with   *)
(* a valid revenue, estimate is the integer part of revenue * 2.5, low the *)
(* integer part of estimate * 0.8, high the integer part of                *)
(* estimate * 1.2, confidence 0.85; for an even revenue the three are the  *)
(* rounded values too.                                                     *)
(***************************************************************************)
C13_DerivationTruncates ==
  (/\ request.endpoint = "step"
   /\ Completed(response)
   /\ ValidRevenue(sessions[request.session_id].data)) =>
    LET revenue == sessions[request.session_id].data["revenue"].n
        result == response.valuation_result
    IN /\ IntegerPartOf(result.equity_value, revenue * 5, 2)
       /\ IntegerPartOf(result.valuation_range.min, result.equity_value * 4, 5)
       /\ IntegerPartOf(result.valuation_range.max, result.equity_value * 6, 5)
       /\ result.confidence_score = Ratio(85, 100)
       /\ revenue % 2 = 0 =>
            /\ result.equity_value = Round(revenue * 5, 2)
            /\ result.valuation_range.min = Round(result.equity_value * 4, 5)
            /\ result.valuation_range.max = Round(result.equity_value * 6, 5)

\* A conversation answered step by step completed with an odd revenue, on
\* which truncation and rounding part.
C13_Witness ==
  /\ request.endpoint = "step"
  /\ Completed(response)
  /\ FlowFields \subseteq DOMAIN sessions[request.session_id].data
  /\ sessions[request.session_id].data["revenue"] = Number(10003)
  /\ response.valuation_result.equity_value = 25007
  /\ response.valuation_result.valuation_range = [min |-> 20005, max |-> 30008]

(***************************************************************************)
(* C14, end-to-end scenario: a Step that answers the step the session is   *)
(* at, under that step's field, with a value of the step's input kind      *)
(* within its bounds (a number for a numeric step, a text such as          *)
(* "Technology" or "Belgium" for a text step) is accepted; steps 0..4      *)
(* return the prompt of the next step and step 5 returns complete=true,    *)
(* with estimate 5000000 and range [4000000, 6000000] for revenue 2000000. *)
(***************************************************************************)
C14_EndToEndScenario ==
  (/\ request.endpoint = "step"
   /\ HasFlowStep(request.step)
   /\ request.field = FlowStepAt(request.step).field
   /\ SatisfiesRule(FlowStepAt(request.step), request.value)) =>
    /\ response.status = 200
    /\ request.step < stepCount - 1 =>
         /\ InProgress(response)
         /\ response.step = request.step + 1
         /\ response.next_field = FlowStepAt(request.step + 1).field
    /\ request.step = stepCount - 1 =>
         /\ Completed(response)
         /\ sessions[request.session_id].data["revenue"] = Number(2000000) =>
              /\ response.valuation_result.equity_value = 5000000
              /\ response.valuation_result.valuation_range =
                   [min |-> 4000000, max |-> 6000000]

(***************************************************************************)
(* Vocabulary of serial execution.                                         *)
(***************************************************************************)
\* The store as the Starts left it, before any Step ran.
AsStarted(store) ==
  [sid \in DOMAIN store |->
     NewSession(store[sid].company_id, store[sid].started_at)]

\* The store and the replies after the handler ran whole on the requests
\* of tasks in the order order[1], order[2], ...
RECURSIVE Serially(_, _, _, _)
Serially(order, k, store, replies) ==
  IF k > Len(order) THEN [store |-> store, replies |-> replies]
  ELSE LET req == Validated(tasks[order[k]].req)
       IN Serially(order, k + 1, SessionsAfterStep(store, req),
                   [replies EXCEPT ![order[k]] = StepReply(store, req, now)])

Orders == {order \in [DOMAIN tasks -> DOMAIN tasks] :
             \A i, j \in DOMAIN tasks : i # j => order[i] # order[j]}

(***************************************************************************)
(* C15, per-session serialization: at most one Step is between its first   *)
(* and its last line at any time, and once the Steps in flight have all    *)
(* been answered, the store and the responses are those of handling them   *)
(* whole, one after another, in some order.                                *)
(***************************************************************************)
C15_Serialized ==
  /\ Cardinality({i \in DOMAIN tasks : tasks[i].pc \notin {"arrived", "done"}}) <= 1
  /\ (\A i \in DOMAIN tasks : tasks[i].pc = "done") =>
       \E order \in Orders :
         Serially(order, 1, AsStarted(sessions), [i \in DOMAIN tasks |-> NoResponse])
           = [store |-> sessions, replies |-> [i \in DOMAIN tasks |-> tasks[i].reply]]

\* Two Steps on one session, for one field with different values, were in
\* flight together and both accepted; the one that arrived first ran last.
C15_Witness ==
  /\ Len(tasks) = 2
  /\ tasks[1].pc = "done" /\ tasks[2].pc = "done"
  /\ tasks[1].reply.status = 200 /\ tasks[2].reply.status = 200
  /\ tasks[1].req.session_id = tasks[2].req.session_id
  /\ tasks[1].req.field = tasks[2].req.field
  /\ AsFloat(tasks[1].req.value) # AsFloat(tasks[2].req.value)
  /\ tasks[1].req.step # tasks[2].req.step
  /\ sessions[tasks[1].req.session_id].data[tasks[1].req.field] = AsFloat(tasks[1].req.value)
  /\ sessions[tasks[1].req.session_id].step = tasks[1].req.step + 1

====
